---- MODULE Spec2Model ----
(***************************************************************************)
(* A model of atlatl: the minimizing builder (fst/builder.rs), the segment *)
(* free-list (segment.rs), the double-array packer (fst/intermediate.rs)   *)
(* and the query engine (fst/mod.rs).                                       *)
(*                                                                         *)
(* Labels are scaled from 0..255 to 0..MaxLabel; the free-list block size  *)
(* (256 in the source, one cell per label) is scaled with them.  Rust's    *)
(* 0-based vectors are TLA+ sequences, so v[i] in the source is v[i+1]     *)
(* here (At and Put do the shift for the double-array vectors and the      *)
(* free-list links); the indices stored in them stay 0-based.              *)
(* Option<T> is a sequence of length at most one.                          *)
(***************************************************************************)
EXTENDS Integers, Sequences, FiniteSets, TLC

\* ---- bounds of the model ------------------------------------------------
MaxLabel == 1
MaxKeyLen == 3
MaxInserts == 3
MaxVal == 1
TinyIndexMax == 3
MaxBlocks == 4
OutBits == 4

\* ---- program constants --------------------------------------------------
U16Max == 65535

Labels == 0 .. MaxLabel

\* block_size : 256, one cell per label value
BlockSize == MaxLabel + 1

VARIABLES
    signed,     \* the output type O: TRUE for the signed integers
    ibound,     \* I::bound() of the index type I
    builder,    \* the Builder<I, O>
    inserted,   \* the (key, value) pairs of the successful inserts, in order
    phase,      \* "building", "finished", "failed", "packed"
    lastOp,     \* the last call and what it returned
    packed      \* the Intermediary after from_builder, and its result

vars == <<signed, ibound, builder, inserted, phase, lastOp, packed>>

\* ---- Option ---------------------------------------------------------------
None == <<>>
Some(x) == <<x>>
IsSome(o) == Len(o) = 1
IsNone(o) == Len(o) = 0
Unwrap(o) == o[1]

Min(a, b) == IF a <= b THEN a ELSE b
Max(a, b) == IF a >= b THEN a ELSE b

\* ---- keys -----------------------------------------------------------------
RECURSIVE SeqsUpTo(_)
SeqsUpTo(n) ==
    IF n = 0 THEN { <<>> }
    ELSE LET shorter == SeqsUpTo(n - 1)
         IN shorter \cup { Append(s, l) : s \in { t \in shorter : Len(t) = n - 1 }, l \in Labels }

Keys == SeqsUpTo(MaxKeyLen)

Values == IF signed THEN (0 - MaxVal) .. MaxVal ELSE 0 .. MaxVal

\* slice comparison of the standard library: -1 (less), 0 (equal), 1 (greater)
RECURSIVE SliceCmp(_, _)
SliceCmp(a, b) ==
    IF a = <<>> /\ b = <<>> THEN 0
    ELSE IF a = <<>> THEN 0 - 1
    ELSE IF b = <<>> THEN 1
    ELSE IF Head(a) < Head(b) THEN 0 - 1
    ELSE IF Head(a) > Head(b) THEN 1
    ELSE SliceCmp(Tail(a), Tail(b))

\* ---- results --------------------------------------------------------------
Ok(v) == [kind |-> "Ok", value |-> v]
OkUnit == [kind |-> "Ok", value |-> 0]
Duplicate(k) == [kind |-> "Duplicate", key |-> k]
OutOfOrder(k1, k2) == [kind |-> "OutOfOrder", key |-> k1, prev |-> k2]
OutOfBounds(r, m) == [kind |-> "OutOfBounds", reached |-> r, maximum |-> m]
Panic(why) == [kind |-> "Panic", why |-> why]

\* ---- fst/error.rs -----------------------------------------------------------
\* format_bytes: the text of the bytes when they are UTF-8 (every byte below 128
\* is a character of its own), their {:?} listing otherwise
FormatBytes(bytes) ==
    IF \A n \in 1 .. Len(bytes) : bytes[n] < 128
    THEN [form |-> "str", chars |-> bytes]
    ELSE [form |-> "debug", chars |-> bytes]

\* <Error as Display>::fmt: the format string of write! (named by its first
\* line) and the arguments that fill its {} in order
DisplayError(e) ==
    IF e.kind = "Duplicate"
    THEN [format |-> "the key {} was already present. All keys must be unique.",
          args |-> << FormatBytes(e.key) >>]
    ELSE IF e.kind = "OutOfOrder"
    THEN LET k1 == e.key
             k2 == e.prev
         IN [format |-> "The lesser key {} was inserted after the greater key {}",
             args |-> << FormatBytes(k2), FormatBytes(k1) >>]
    ELSE [format |-> "An FST with a maximum index of {} reached ... an index of {}.",
          args |-> << e.maximum, e.reached >>]

\* ---- fst/output.rs --------------------------------------------------------
Zero == 0
MAppend(x, y) == x + y
Inverse(x, y) == x - y

PrefixUnsigned(x, y) == Min(x, y)

\* the signed prefix taken as the minimum whatever the signs
PrefixSigned_AlwaysMin(x, y) == Min(x, y)

PrefixSigned(x, y) ==
    IF x > 0 /\ y > 0 THEN Min(x, y)
    ELSE IF ~(x > 0) /\ ~(y > 0) THEN Max(x, y)
    ELSE 0

Prefix(x, y) == IF signed THEN PrefixSigned(x, y) ELSE PrefixUnsigned(x, y)

\* the values of the output type $num, here of OutBits bits
OutputRange ==
    IF signed THEN (0 - 2 ^ (OutBits - 1)) .. (2 ^ (OutBits - 1) - 1)
    ELSE 0 .. (2 ^ OutBits - 1)

\* `+` and `-` on $num leave the type's range: a panic with overflow checks, and
\* the wrapped value without them
Overflows(x) == x \notin OutputRange

Wrap(x) ==
    LET m == x % (2 ^ OutBits)
    IN IF signed /\ m >= 2 ^ (OutBits - 1) THEN m - 2 ^ OutBits ELSE m

\* the output type O of the builder and the FST, scaled to the values fed to them:
\* 0 .. MaxVal unsigned, one more value below zero than above it signed
ValueRange == IF signed THEN (0 - MaxVal - 1) .. MaxVal ELSE 0 .. MaxVal

\* a mappend or inverse of the builder or a query left the range of O
OutOfRange(x) == x \notin ValueRange

\* mappend(prefix(a, b), inverse(a, prefix(a, b))) as the type computes it
MonoidLaw(a, b) ==
    LET p == Prefix(a, b)
        d == Inverse(a, p)
        r == MAppend(p, Wrap(d))
    IN [prefix |-> p, inverse |-> Wrap(d), mappend |-> Wrap(r),
        overflow |-> Overflows(d) \/ Overflows(r)]

\* ---- index.rs -------------------------------------------------------------
\* `i as $idx`: an unchecked cast keeps the low bits
AsIndex(i) == i % (ibound + 1)

\* ---- fst/builder.rs: states -----------------------------------------------
Transition(l, o, d) == [label |-> l, output |-> o, destination |-> d]

DefaultState == [terminal |-> FALSE, final_output |-> Zero, transitions |-> <<>>]

DanglingArc(l, o) == [label |-> l, output |-> o]

DefaultDanglingState == [state |-> DefaultState, last_arc |-> None]

DanglingFromLabel(l) == [state |-> DefaultState, last_arc |-> Some(DanglingArc(l, Zero))]

EmptyTerminal == [state |-> [DefaultState EXCEPT !.terminal = TRUE], last_arc |-> None]

\* affix_last that pushes the transition and keeps the last arc
AffixLast_KeepsLastArc(d, destination) ==
    IF IsSome(d.last_arc)
    THEN LET a == Unwrap(d.last_arc)
         IN [state |-> [d.state EXCEPT !.transitions =
                            Append(@, Transition(a.label, a.output, destination))],
             last_arc |-> d.last_arc]
    ELSE d

\* affix_last that puts the new transition in front of the others
AffixLast_Prepends(d, destination) ==
    IF IsSome(d.last_arc)
    THEN LET a == Unwrap(d.last_arc)
         IN [state |-> [d.state EXCEPT !.transitions =
                            << Transition(a.label, a.output, destination) >> \o @],
             last_arc |-> None]
    ELSE d

AffixLast(d, destination) ==
    IF IsSome(d.last_arc)
    THEN LET a == Unwrap(d.last_arc)
         IN [state |-> [d.state EXCEPT !.transitions =
                            Append(@, Transition(a.label, a.output, destination))],
             last_arc |-> None]
    ELSE d

\* redistribute_output that leaves final_output alone
RedistributeOutput_SkipsFinalOutput(d, diff) ==
    IF diff # Zero
    THEN [state |->
            [terminal |-> d.state.terminal,
             final_output |-> d.state.final_output,
             transitions |-> [j \in 1 .. Len(d.state.transitions) |->
                                [d.state.transitions[j] EXCEPT !.output = MAppend(@, diff)]]],
          last_arc |-> IF IsSome(d.last_arc)
                       THEN Some([Unwrap(d.last_arc) EXCEPT !.output = MAppend(@, diff)])
                       ELSE None]
    ELSE d

RedistributeOutput(d, diff) ==
    IF diff # Zero
    THEN [state |->
            [terminal |-> d.state.terminal,
             final_output |-> IF d.state.terminal
                              THEN MAppend(d.state.final_output, diff)
                              ELSE d.state.final_output,
             transitions |-> [j \in 1 .. Len(d.state.transitions) |->
                                [d.state.transitions[j] EXCEPT !.output = MAppend(@, diff)]]],
          last_arc |-> IF IsSome(d.last_arc)
                       THEN Some([Unwrap(d.last_arc) EXCEPT !.output = MAppend(@, diff)])
                       ELSE None]
    ELSE d

\* one of the mappend_assign of redistribute_output leaves the range of O
RedistributeOutputOverflows(d, diff) ==
    /\ diff # Zero
    /\ \/ d.state.terminal /\ OutOfRange(MAppend(d.state.final_output, diff))
       \/ IsSome(d.last_arc) /\ OutOfRange(MAppend(Unwrap(d.last_arc).output, diff))
       \/ \E j \in 1 .. Len(d.state.transitions) :
             OutOfRange(MAppend(d.state.transitions[j].output, diff))

\* ---- fst/builder.rs: the dangling path --------------------------------------
DanglingPathNew == << DefaultDanglingState >>

SetRootOutput(stack, output) ==
    [stack EXCEPT ![1].state.terminal = TRUE, ![1].state.final_output = output]

\* add_suffix that does not push the terminal state of the key's end
AddSuffix_WithoutTerminal(stack, suffix, output) ==
    IF suffix = <<>> THEN stack
    ELSE LET last == Len(stack)
             first == [stack EXCEPT ![last].last_arc = Some(DanglingArc(suffix[1], output))]
             rest == [j \in 1 .. Len(suffix) - 1 |-> DanglingFromLabel(suffix[j + 1])]
         IN first \o rest

\* add_suffix with the output put on the arc of the last label, not the first
AddSuffix_OutputOnLastArc(stack, suffix, output) ==
    IF suffix = <<>> THEN stack
    ELSE LET last == Len(stack)
             n == Len(suffix)
             first == [stack EXCEPT ![last].last_arc =
                          Some(DanglingArc(suffix[1], IF n = 1 THEN output ELSE Zero))]
             rest == [j \in 1 .. n - 1 |->
                        [state |-> DefaultState,
                         last_arc |-> Some(DanglingArc(suffix[j + 1],
                                                       IF j = n - 1 THEN output ELSE Zero))]]
         IN (first \o rest) \o << EmptyTerminal >>

AddSuffix(stack, suffix, output) ==
    IF suffix = <<>> THEN stack
    ELSE LET last == Len(stack)
             first == [stack EXCEPT ![last].last_arc = Some(DanglingArc(suffix[1], output))]
             rest == [j \in 1 .. Len(suffix) - 1 |-> DanglingFromLabel(suffix[j + 1])]
         IN (first \o rest) \o << EmptyTerminal >>

\* the assertion of add_suffix
AddSuffixAsserts(stack, suffix) ==
    suffix = <<>> \/ (Len(stack) >= 1 /\ IsNone(stack[Len(stack)].last_arc))

\* `overflow`: an inverse or a mappend_assign of the loop left the range of O
RECURSIVE RedistributePrefixFrom(_, _, _, _, _)
RedistributePrefixFrom(stack, key, out, i, ovf) ==
    IF i >= Len(key)
    THEN [stack |-> stack, prefix_len |-> i, out |-> out, panic |-> FALSE, overflow |-> ovf]
    ELSE IF i + 1 > Len(stack)
    THEN [stack |-> stack, prefix_len |-> i, out |-> out, panic |-> TRUE, overflow |-> ovf]
    ELSE IF IsSome(stack[i + 1].last_arc) /\ Unwrap(stack[i + 1].last_arc).label = key[i + 1]
    THEN LET t == Unwrap(stack[i + 1].last_arc)
             prefix == Prefix(t.output, out)
             diff == Inverse(t.output, prefix)
             stack1 == [stack EXCEPT ![i + 1].last_arc = Some([t EXCEPT !.output = prefix])]
             ovf1 == ovf \/ OutOfRange(diff) \/ OutOfRange(Inverse(out, prefix))
         IN IF i + 2 > Len(stack)
            THEN [stack |-> stack1, prefix_len |-> i + 1, out |-> Inverse(out, prefix),
                  panic |-> TRUE, overflow |-> ovf1]
            ELSE RedistributePrefixFrom([stack1 EXCEPT ![i + 2] = RedistributeOutput(@, diff)],
                                        key, Inverse(out, prefix), i + 1,
                                        ovf1 \/ RedistributeOutputOverflows(stack1[i + 2], diff))
    ELSE [stack |-> stack, prefix_len |-> i, out |-> out, panic |-> FALSE, overflow |-> ovf]

RedistributePrefix(stack, key, out) == RedistributePrefixFrom(stack, key, out, 0, FALSE)

\* ---- fst/builder.rs: the builder ---------------------------------------------
BuilderFromIter ==
    [registry |-> << >>,
     dangling |-> DanglingPathNew,
     previous_key |-> None,
     transition_count |-> 0,
     usable_index |-> 0,
     language_size |-> 0,
     root |-> 0]

\* Builder::default(): every field its default, the dangling path an empty stack
BuilderDefault == [BuilderFromIter EXCEPT !.dangling = <<>>]

\* register that does not advance usable_index
Register_KeepsUsableIndex(b, state) ==
    IF state \in DOMAIN b.registry
    THEN [builder |-> b, result |-> Ok(b.registry[state])]
    ELSE LET s_i == b.usable_index
             trans_r == b.transition_count + Len(state.transitions)
             b1 == [b EXCEPT !.transition_count = trans_r]
         IN IF s_i > ibound \/ trans_r > ibound
            THEN [builder |-> b1, result |-> OutOfBounds(Max(s_i, trans_r), ibound)]
            ELSE [builder |-> [b1 EXCEPT !.registry = (state :> AsIndex(s_i)) @@ @],
                  result |-> Ok(AsIndex(s_i))]

\* register that bounds the state index only
Register_IgnoresTransitionCount(b, state) ==
    IF state \in DOMAIN b.registry
    THEN [builder |-> b, result |-> Ok(b.registry[state])]
    ELSE LET s_i == b.usable_index
             trans_r == b.transition_count + Len(state.transitions)
             b1 == [b EXCEPT !.usable_index = s_i + 1, !.transition_count = trans_r]
         IN IF s_i > ibound
            THEN [builder |-> b1, result |-> OutOfBounds(Max(s_i, trans_r), ibound)]
            ELSE [builder |-> [b1 EXCEPT !.registry = (state :> AsIndex(s_i)) @@ @],
                  result |-> Ok(AsIndex(s_i))]

Register(b, state) ==
    IF state \in DOMAIN b.registry
    THEN [builder |-> b, result |-> Ok(b.registry[state])]
    ELSE LET s_i == b.usable_index
             trans_r == b.transition_count + Len(state.transitions)
             b1 == [b EXCEPT !.usable_index = s_i + 1, !.transition_count = trans_r]
         IN IF s_i > ibound \/ trans_r > ibound
            THEN [builder |-> b1, result |-> OutOfBounds(Max(s_i, trans_r), ibound)]
            ELSE [builder |-> [b1 EXCEPT !.registry = (state :> AsIndex(s_i)) @@ @],
                  result |-> Ok(AsIndex(s_i))]

RECURSIVE FinalizeSubpathLoop(_, _, _)
FinalizeSubpathLoop(b, path_start, idx) ==
    IF path_start + 1 < Len(b.dangling)
    THEN LET top == b.dangling[Len(b.dangling)]
             popped == [b EXCEPT !.dangling = SubSeq(@, 1, Len(@) - 1)]
         IN IF IsNone(idx) /\ IsSome(top.last_arc)
            THEN [builder |-> popped, result |-> Panic("pop_empty")]
            ELSE LET state == IF IsSome(idx) THEN AffixLast(top, Unwrap(idx)).state
                              ELSE top.state
                     r == Register(popped, state)
                 IN IF r.result.kind = "Ok"
                    THEN FinalizeSubpathLoop(r.builder, path_start, Some(r.result.value))
                    ELSE r
    ELSE IF IsSome(idx)
         THEN [builder |-> [b EXCEPT !.dangling[Len(b.dangling)] = AffixLast(@, Unwrap(idx))],
               result |-> OkUnit]
         ELSE [builder |-> b, result |-> OkUnit]

FinalizeSubpath(b, path_start) == FinalizeSubpathLoop(b, path_start, None)

FinalizeRoot(b) ==
    IF Len(b.dangling) # 1 \/ IsSome(b.dangling[1].last_arc)
    THEN [builder |-> b, result |-> Panic("pop_root")]
    ELSE Register([b EXCEPT !.dangling = <<>>], b.dangling[1].state)

\* validate_key that records the key before it rejects it
ValidateKey_RecordsRejectedKey(b, key) ==
    IF IsSome(b.previous_key) /\ SliceCmp(key, Unwrap(b.previous_key)) = 0
    THEN [builder |-> b, result |-> Duplicate(key)]
    ELSE IF IsSome(b.previous_key) /\ SliceCmp(key, Unwrap(b.previous_key)) < 0
    THEN [builder |-> [b EXCEPT !.previous_key = Some(key)],
          result |-> OutOfOrder(key, Unwrap(b.previous_key))]
    ELSE [builder |-> [b EXCEPT !.previous_key = Some(key)], result |-> OkUnit]

\* validate_key with the two guards in the other order and `<=` for `<`
ValidateKey_LessOrEqual(b, key) ==
    IF IsSome(b.previous_key) /\ SliceCmp(key, Unwrap(b.previous_key)) <= 0
    THEN [builder |-> b, result |-> OutOfOrder(key, Unwrap(b.previous_key))]
    ELSE IF IsSome(b.previous_key) /\ SliceCmp(key, Unwrap(b.previous_key)) = 0
    THEN [builder |-> b, result |-> Duplicate(key)]
    ELSE [builder |-> [b EXCEPT !.previous_key = Some(key)], result |-> OkUnit]

ValidateKey(b, key) ==
    IF IsSome(b.previous_key) /\ SliceCmp(key, Unwrap(b.previous_key)) = 0
    THEN [builder |-> b, result |-> Duplicate(key)]
    ELSE IF IsSome(b.previous_key) /\ SliceCmp(key, Unwrap(b.previous_key)) < 0
    THEN [builder |-> b, result |-> OutOfOrder(key, Unwrap(b.previous_key))]
    ELSE [builder |-> [b EXCEPT !.previous_key = Some(key)], result |-> OkUnit]

BuilderInsert(b, key, value) ==
    LET v == ValidateKey(b, key)
    IN IF v.result.kind # "Ok" THEN v
       ELSE IF key = <<>>
       THEN IF Len(v.builder.dangling) = 0
            THEN [builder |-> v.builder, result |-> Panic("set_root_output")]
            ELSE [builder |-> [v.builder EXCEPT !.dangling = SetRootOutput(@, value),
                                                !.language_size = 1],
                  result |-> OkUnit]
       ELSE LET rp == RedistributePrefix(v.builder.dangling, key, value)
                fs == FinalizeSubpath([v.builder EXCEPT !.dangling = rp.stack], rp.prefix_len)
                suffix == SubSeq(key, rp.prefix_len + 1, Len(key))
            IN IF rp.panic
               THEN [builder |-> [v.builder EXCEPT !.dangling = rp.stack],
                     result |-> Panic("redistribute_prefix")]
               ELSE IF rp.overflow
               THEN [builder |-> [v.builder EXCEPT !.dangling = rp.stack],
                     result |-> Panic("overflow")]
               ELSE IF fs.result.kind # "Ok" THEN fs
               ELSE IF ~AddSuffixAsserts(fs.builder.dangling, suffix)
               THEN [builder |-> fs.builder, result |-> Panic("add_suffix")]
               ELSE [builder |-> [fs.builder EXCEPT
                                     !.dangling = AddSuffix(@, suffix, rp.out),
                                     !.language_size = @ + 1],
                     result |-> OkUnit]

BuilderFinish(b) ==
    LET fs == FinalizeSubpath(b, 0)
    IN IF fs.result.kind # "Ok" THEN fs
       ELSE LET fr == FinalizeRoot(fs.builder)
            IN IF fr.result.kind # "Ok" THEN fr
               ELSE [builder |-> [fr.builder EXCEPT !.root = fr.result.value],
                     result |-> fr.result]

\* ---- vectors with 0-based indices -------------------------------------------
At(v, i) == v[i + 1]
Put(v, i, x) == [v EXCEPT ![i + 1] = x]
Repeat(x, n) == [j \in 1 .. n |-> x]

\* ---- segment.rs ---------------------------------------------------------------
IndexLink(p, n) == [previous |-> p, next |-> n, fixed |-> FALSE]

\* `panicked` records a failed assert!/index of affix; it has no field in the source
DefaultSegments == [vacancy |-> None, links |-> <<>>, panicked |-> FALSE]

\* admits_symbol that asks only whether the cell exists
AdmitsSymbol_IgnoresFixed(seg, base, symbol) ==
    LET c == base + (1 + symbol)
    IN c < Len(seg.links)

AdmitsSymbol(seg, base, symbol) ==
    LET c == base + (1 + symbol)
    IN c < Len(seg.links) /\ ~At(seg.links, c).fixed

Admits(seg, base, symbols) ==
    \A j \in 1 .. Len(symbols) : AdmitsSymbol(seg, base, symbols[j])

RECURSIVE UsherFrom(_, _, _, _)
UsherFrom(seg, symbols, v, base) ==
    IF Admits(seg, base, symbols) THEN Some(base)
    ELSE LET nb == At(seg.links, base).next
         IN IF nb = v THEN None ELSE UsherFrom(seg, symbols, v, nb)

Usher(seg, symbols) ==
    IF IsSome(seg.vacancy)
    THEN UsherFrom(seg, symbols, Unwrap(seg.vacancy), Unwrap(seg.vacancy))
    ELSE None

\* abridge that leaves the vacancy where it was
Abridge_KeepsVacancy(seg, i) ==
    LET prev == At(seg.links, i).previous
        next == At(seg.links, i).next
        l1 == [seg.links EXCEPT ![next + 1].previous = prev]
        l2 == [l1 EXCEPT ![prev + 1].next = next]
    IN [seg EXCEPT !.links = l2]

Abridge(seg, i) ==
    LET prev == At(seg.links, i).previous
        next == At(seg.links, i).next
        l1 == [seg.links EXCEPT ![next + 1].previous = prev]
        l2 == [l1 EXCEPT ![prev + 1].next = next]
    IN [seg EXCEPT !.links = l2,
                   !.vacancy = IF IsSome(seg.vacancy) /\ Unwrap(seg.vacancy) = i
                               THEN (IF i = next THEN None ELSE Some(next))
                               ELSE seg.vacancy]

Affix(seg, i) ==
    IF i >= Len(seg.links) \/ At(seg.links, i).fixed
    THEN [seg EXCEPT !.panicked = TRUE]
    ELSE [Abridge(seg, i) EXCEPT !.links[i + 1].fixed = TRUE]

RECURSIVE AffixSymbols(_, _, _, _)
AffixSymbols(seg, base, symbols, j) ==
    IF j > Len(symbols) \/ seg.panicked THEN seg
    ELSE AffixSymbols(Affix(seg, base + (1 + symbols[j])), base, symbols, j + 1)

\* the closure of settle fixing the base and none of the transition cells
SegSettleAt_FixesBaseOnly(seg, symbols, u) ==
    IF IsSome(u)
    THEN [segments |-> Affix(seg, Unwrap(u)), base |-> u]
    ELSE [segments |-> seg, base |-> None]

\* the closure of settle: fix the base found and its cells
SegSettleAt(seg, symbols, u) ==
    IF IsSome(u)
    THEN [segments |-> AffixSymbols(Affix(seg, Unwrap(u)), Unwrap(u), symbols, 1), base |-> u]
    ELSE [segments |-> seg, base |-> None]

SegSettle(seg, symbols) == SegSettleAt(seg, symbols, Usher(seg, symbols))

\* settle_index is called by the packer; it settles `symbols` at the given base
SegSettleIndex(seg, symbols, base) ==
    IF base < Len(seg.links) /\ ~At(seg.links, base).fixed /\ Admits(seg, base, symbols)
    THEN [segments |-> AffixSymbols(Affix(seg, base), base, symbols, 1), base |-> Some(base)]
    ELSE [segments |-> seg, base |-> None]

SaturatingSub1(i) == IF i = 0 THEN 0 ELSE i - 1

SegExpand(seg) ==
    LET start == Len(seg.links)
        end == start + BlockSize
        extension == [j \in 1 .. BlockSize |->
                        IndexLink(SaturatingSub1(start + j - 1), start + j)]
        links == seg.links \o extension
    IN IF IsSome(seg.vacancy)
       THEN LET i == Unwrap(seg.vacancy)
                empty_tail == At(links, i).previous
                l1 == [links EXCEPT ![start + 1].previous = empty_tail]
                l2 == [l1 EXCEPT ![empty_tail + 1].next = start]
                l3 == [l2 EXCEPT ![i + 1].previous = end - 1]
                l4 == [l3 EXCEPT ![end].next = i]
            IN [seg EXCEPT !.links = l4]
       ELSE LET l1 == [links EXCEPT ![start + 1].previous = end - 1]
                l2 == [l1 EXCEPT ![end].next = start]
            IN [seg EXCEPT !.links = l2, !.vacancy = Some(start)]

UnfixedCount(seg) == Cardinality({ j \in 1 .. Len(seg.links) : ~seg.links[j].fixed })

\* ---- fst/mod.rs: the packed arrays ---------------------------------------------
Stipe(c, t) == [check |-> c, terminal |-> t]

\* Stipe::default(): check 0, Terminal::Not
DefaultStipe == Stipe(0, "Not")

DefaultFST == [stipe |-> <<>>, next |-> <<>>, output |-> <<>>, state_output |-> << >>]

FstLen(fst) == Len(fst.stipe)

FstResize(fst, length) ==
    IF length >= FstLen(fst)
    THEN [fst EXCEPT !.stipe = @ \o Repeat(DefaultStipe, length - FstLen(fst)),
                     !.next = @ \o Repeat(0, length - FstLen(fst)),
                     !.output = @ \o Repeat(Zero, length - FstLen(fst))]
    ELSE [fst EXCEPT !.stipe = SubSeq(@, 1, length),
                     !.next = SubSeq(@, 1, length),
                     !.output = SubSeq(@, 1, length)]

MapInsert(m, k, v) == (k :> v) @@ m

\* ---- fst/intermediate.rs ---------------------------------------------------------
DefaultIntermediary ==
    [stack |-> <<>>, registry |-> <<>>, segments |-> DefaultSegments, fst |-> DefaultFST]

ImExpand(im) ==
    LET old_length == FstLen(im.fst)
    IN [im EXCEPT !.fst = FstResize(@, old_length + BlockSize),
                  !.segments = SegExpand(@)]

StateLabels(state) == [j \in 1 .. Len(state.transitions) |-> state.transitions[j].label]

Classify(state) ==
    IF ~state.terminal THEN "Not"
    ELSE IF state.final_output = Zero THEN "Empty"
    ELSE "Inner"

\* the intermediary with the segments as a settle left them, and the base it found
WithSettled(im, s) == [im |-> [im EXCEPT !.segments = s.segments], base |-> s.base]

\* the or_else closure of first_available: the table is grown before it is called
FirstAvailableRetry(im1, symbols) == WithSettled(im1, SegSettle(im1.segments, symbols))

FirstAvailableOrElse(im, symbols, s1) ==
    IF IsSome(s1.base) THEN WithSettled(im, s1)
    ELSE FirstAvailableRetry(ImExpand(im), symbols)

\* `base` None is the unwrap that panics
FirstAvailable(im, symbols) == FirstAvailableOrElse(im, symbols, SegSettle(im.segments, symbols))

\* settle without the comparison of the base to I::bound()
ImSettleResult_Unbounded(fa) ==
    IF IsNone(fa.base) \/ fa.im.segments.panicked
    THEN [im |-> fa.im, result |-> Panic("first_available")]
    ELSE [im |-> fa.im, result |-> Ok(Unwrap(fa.base))]

ImSettleResult(fa) ==
    IF IsNone(fa.base) \/ fa.im.segments.panicked
    THEN [im |-> fa.im, result |-> Panic("first_available")]
    ELSE IF Unwrap(fa.base) > ibound
    THEN [im |-> fa.im, result |-> OutOfBounds(Unwrap(fa.base), ibound)]
    ELSE [im |-> fa.im, result |-> Ok(Unwrap(fa.base))]

ImSettle(im, state) == ImSettleResult(FirstAvailable(im, StateLabels(state)))

SettleRootAt(im1, symbols) == WithSettled(im1, SegSettleIndex(im1.segments, symbols, 0))

SettleRoot(im, state) == SettleRootAt(ImExpand(im), StateLabels(state))

\* states[s_i] of from_builder: the registry inverted, `eph` where no state has the index
BuilderStates(b) ==
    [i \in 0 .. Cardinality(DOMAIN b.registry) - 1 |->
        IF \E s \in DOMAIN b.registry : b.registry[s] = i
        THEN CHOOSE s \in DOMAIN b.registry : b.registry[s] = i
        ELSE DefaultState]

\* if e >= self.fst.len() { self.expand(); }
GrowFor(im, e) == IF e >= FstLen(im.fst) THEN ImExpand(im) ELSE im

\* output[e] and stipe[e] of the transition
WriteCell(im, e, trans, terminal) ==
    [im EXCEPT !.fst.output = Put(@, e, trans.output),
               !.fst.stipe = Put(@, e, Stipe(trans.label, terminal))]

\* the None arm that leaves the state-output map as it was
RecordSettled_WithoutStateOutput(im, t, next, state, e) ==
    [im EXCEPT !.registry = Put(@, t, Some(next)),
               !.stack = Append(@, t),
               !.fst.next = Put(@, e, next)]

\* the None arm once the destination is settled at `next`
RecordSettled(im, t, next, state, e) ==
    [im EXCEPT !.registry = Put(@, t, Some(next)),
               !.stack = Append(@, t),
               !.fst.state_output = IF Classify(state) = "Inner"
                                    THEN MapInsert(@, next, state.final_output)
                                    ELSE @,
               !.fst.next = Put(@, e, next)]

RECURSIVE PackTransitions(_, _, _, _)

PackSettled(st, states, s_i, j, e) ==
    IF st.result.kind # "Ok" THEN st
    ELSE LET t == states[s_i].transitions[j].destination
         IN PackTransitions(RecordSettled(st.im, t, AsIndex(st.result.value), states[t], e),
                            states, s_i, j + 1)

PackCell(im, states, s_i, j, e) ==
    LET t == states[s_i].transitions[j].destination
    IN IF e >= FstLen(im.fst) THEN [im |-> im, result |-> Panic("index")]
       ELSE IF IsSome(At(im.registry, t))
       THEN PackTransitions([im EXCEPT !.fst.next = Put(@, e, Unwrap(At(im.registry, t)))],
                            states, s_i, j + 1)
       ELSE PackSettled(ImSettle(im, states[t]), states, s_i, j, e)

PackTransitions(im, states, s_i, j) ==
    IF j > Len(states[s_i].transitions) THEN [im |-> im, result |-> OkUnit]
    ELSE LET trans == states[s_i].transitions[j]
             e == Unwrap(At(im.registry, s_i)) + (1 + trans.label)
         IN IF e >= FstLen(GrowFor(im, e).fst)
            THEN [im |-> GrowFor(im, e), result |-> Panic("index")]
            ELSE PackCell(WriteCell(GrowFor(im, e), e, trans, Classify(states[trans.destination])),
                          states, s_i, j, e)

RECURSIVE PackLoop(_, _)

PackLoopAfter(r, states) == IF r.result.kind = "Ok" THEN PackLoop(r.im, states) ELSE r

PackLoop(im, states) ==
    IF im.stack = <<>> THEN [im |-> im, result |-> OkUnit]
    ELSE PackLoopAfter(PackTransitions([im EXCEPT !.stack = SubSeq(@, 1, Len(@) - 1)],
                                       states, im.stack[Len(im.stack)], 1),
                       states)

\* next[0], registry[root], stipe[0].terminal, state_output[0] and the first push
RootCell(im, root_idx, root_next, state) ==
    [im EXCEPT !.fst.next = Put(@, 0, root_next),
               !.registry = Put(@, root_idx, Some(root_next)),
               !.fst.stipe = Put(@, 0, [At(@, 0) EXCEPT !.terminal = Classify(state)]),
               !.fst.state_output = IF Classify(state) = "Inner"
                                    THEN MapInsert(@, 0, state.final_output)
                                    ELSE @,
               !.stack = Append(@, root_idx)]

FromBuilderRoot(sr, states, root_idx) ==
    IF IsNone(sr.base) \/ sr.im.segments.panicked
    THEN [im |-> sr.im, result |-> Panic("settle_root")]
    ELSE PackLoop(RootCell(sr.im, root_idx, AsIndex(Unwrap(sr.base)), states[root_idx]), states)

IntermediaryFromBuilder(im, b) ==
    FromBuilderRoot(
        SettleRoot(ImExpand([im EXCEPT !.registry = Repeat(None, Cardinality(DOMAIN b.registry))]),
                   BuilderStates(b)[b.root]),
        BuilderStates(b), b.root)

\* FST::from_builder
FstFromBuilder(b) == IntermediaryFromBuilder(DefaultIntermediary, b)

\* ---- fst/mod.rs: queries ---------------------------------------------------------
FstTransition(fst, state, input) ==
    LET e == state + (1 + input)
    IN IF e < FstLen(fst) /\ At(fst.stipe, e).check = input
       THEN Some([index |-> At(fst.next, e), terminal |-> At(fst.stipe, e).terminal])
       ELSE None

\* State::default(): index 0, Terminal::default()
DefaultQueryState == [index |-> 0, terminal |-> "Not"]

RECURSIVE ContainsFrom(_, _, _, _)
ContainsFrom(fst, key, j, state) ==
    IF j > Len(key) THEN state.terminal # "Not"
    ELSE LET to == FstTransition(fst, state.index, key[j])
         IN IF IsSome(to) THEN ContainsFrom(fst, key, j + 1, Unwrap(to)) ELSE FALSE

FstContains(fst, key) == ContainsFrom(fst, key, 1, DefaultQueryState)

\* get: `panic` is the failed lookup state_output[&state]
RECURSIVE GetFrom(_, _, _, _, _, _)
GetFrom(fst, key, j, out, state, terminal) ==
    IF j > Len(key)
    THEN IF terminal = "Not" THEN [panic |-> FALSE, value |-> None]
         ELSE IF terminal = "Empty" THEN [panic |-> FALSE, value |-> Some(out)]
         ELSE IF state \in DOMAIN fst.state_output
              THEN [panic |-> FALSE, value |-> Some(MAppend(out, fst.state_output[state]))]
              ELSE [panic |-> TRUE, value |-> None]
    ELSE LET label == key[j]
             e == state + (1 + label)
         IN IF e < FstLen(fst) /\ At(fst.stipe, e).check = label
            THEN GetFrom(fst, key, j + 1, MAppend(out, At(fst.output, e)),
                         At(fst.next, e), At(fst.stipe, e).terminal)
            ELSE [panic |-> FALSE, value |-> None]

FstGetResult(fst, key) == GetFrom(fst, key, 1, Zero, 0, At(fst.stipe, 0).terminal)

FstGet(fst, key) == FstGetResult(fst, key).value

\* the mappend of get and of the iterators along the query from its j-th label:
\* one of them leaves the range of O.  A failed transition ends get; an iterator
\* called again goes on from the same state with the labels that remain.
RECURSIVE WalkOverflows(_, _, _, _, _)
WalkOverflows(fst, query, j, out, state) ==
    /\ j <= Len(query)
    /\ LET label == query[j]
           e == state + (1 + label)
       IN IF e < FstLen(fst) /\ At(fst.stipe, e).check = label
          THEN LET out1 == MAppend(out, At(fst.output, e))
                   next == At(fst.next, e)
               IN \/ OutOfRange(out1)
                  \/ /\ At(fst.stipe, e).terminal = "Inner"
                     /\ next \in DOMAIN fst.state_output
                     /\ OutOfRange(MAppend(out1, fst.state_output[next]))
                  \/ WalkOverflows(fst, query, j + 1, out1, next)
          ELSE WalkOverflows(fst, query, j + 1, out, state)

QueryOverflows(fst, query) == WalkOverflows(fst, query, 1, Zero, 0)

\* ---- fst/mod.rs: the prefix iterators ----------------------------------------------
\* an item is <<position, output>>; `panic` is a failed lookup in state_output
\* reap that takes zero for the root's output whatever the root's tag
Reap_ZeroRootOutput(fst, query) ==
    LET t == At(fst.stipe, 0).terminal
    IN [query |-> query,
        position |-> 0,
        root_output |-> IF t = "Not" THEN None ELSE Some(<<0, Zero>>),
        output |-> Zero,
        state |-> 0,
        panic |-> FALSE]

Reap(fst, query) ==
    LET t == At(fst.stipe, 0).terminal
    IN [query |-> query,
        position |-> 0,
        root_output |-> IF t = "Not" THEN None
                        ELSE IF t = "Empty" THEN Some(<<0, Zero>>)
                        ELSE IF 0 \in DOMAIN fst.state_output
                             THEN Some(<<0, fst.state_output[0]>>)
                             ELSE None,
        output |-> Zero,
        state |-> 0,
        panic |-> t = "Inner" /\ 0 \notin DOMAIN fst.state_output]

ReapPastRoot(fst, query) ==
    [query |-> query, position |-> 0, output |-> Zero, state |-> 0, panic |-> FALSE]

RECURSIVE RootlessReaperNext(_, _)
RootlessReaperNext(fst, it) ==
    IF it.query = <<>> THEN [it |-> it, item |-> None]
    ELSE LET label == Head(it.query)
             e == it.state + (1 + label)
             rest == [it EXCEPT !.query = Tail(@)]
         IN IF e < FstLen(fst) /\ At(fst.stipe, e).check = label
            THEN LET it1 == [rest EXCEPT !.output = MAppend(@, At(fst.output, e)),
                                         !.state = At(fst.next, e),
                                         !.position = @ + 1]
                     terminal == At(fst.stipe, e).terminal
                 IN IF terminal = "Not" THEN RootlessReaperNext(fst, it1)
                    ELSE IF terminal = "Empty"
                    THEN [it |-> it1, item |-> Some(<<it1.position, it1.output>>)]
                    ELSE IF it1.state \in DOMAIN fst.state_output
                    THEN [it |-> it1,
                          item |-> Some(<<it1.position,
                                          MAppend(it1.output, fst.state_output[it1.state])>>)]
                    ELSE [it |-> [it1 EXCEPT !.panic = TRUE], item |-> None]
            ELSE [it |-> rest, item |-> None]

RECURSIVE ReaperWalk(_, _)
ReaperWalk(fst, it) ==
    IF it.query = <<>> THEN [it |-> it, item |-> None]
    ELSE LET label == Head(it.query)
             e == it.state + (1 + label)
             rest == [it EXCEPT !.query = Tail(@)]
         IN IF e < FstLen(fst) /\ At(fst.stipe, e).check = label
            THEN LET it1 == [rest EXCEPT !.output = MAppend(@, At(fst.output, e)),
                                         !.state = At(fst.next, e),
                                         !.position = @ + 1]
                     terminal == At(fst.stipe, e).terminal
                 IN IF terminal = "Not" THEN ReaperWalk(fst, it1)
                    ELSE IF terminal = "Empty"
                    THEN [it |-> it1, item |-> Some(<<it1.position, it1.output>>)]
                    ELSE IF it1.state \in DOMAIN fst.state_output
                    THEN [it |-> it1,
                          item |-> Some(<<it1.position,
                                          MAppend(it1.output, fst.state_output[it1.state])>>)]
                    ELSE [it |-> [it1 EXCEPT !.panic = TRUE], item |-> None]
            ELSE [it |-> rest, item |-> None]

ReaperNext(fst, it) ==
    IF IsSome(it.root_output)
    THEN [it |-> [it EXCEPT !.root_output = None], item |-> it.root_output]
    ELSE ReaperWalk(fst, it)

\* the items up to the first None
RECURSIVE ReaperCollect(_, _)
ReaperCollect(fst, it) ==
    LET r == ReaperNext(fst, it)
    IN IF IsNone(r.item) THEN <<>> ELSE << Unwrap(r.item) >> \o ReaperCollect(fst, r.it)

RECURSIVE RootlessReaperCollect(_, _)
RootlessReaperCollect(fst, it) ==
    LET r == RootlessReaperNext(fst, it)
    IN IF IsNone(r.item) THEN <<>> ELSE << Unwrap(r.item) >> \o RootlessReaperCollect(fst, r.it)

\* size_hint that leaves the root's item out of the upper bound
ReaperSizeHint_UpperWithoutRoot(it) ==
    LET from_root == IF IsSome(it.root_output) THEN 1 ELSE 0
    IN [lower |-> from_root, upper |-> Some(Len(it.query))]

\* Reaper::size_hint
ReaperSizeHint(it) ==
    LET from_root == IF IsSome(it.root_output) THEN 1 ELSE 0
    IN [lower |-> from_root, upper |-> Some(Len(it.query) + from_root)]

\* RootlessReaper::size_hint
RootlessReaperSizeHint(it) == [lower |-> 0, upper |-> Some(Len(it.query))]

\* ---- the state machine -------------------------------------------------------------
Call(op, key, prev, result) == [op |-> op, key |-> key, prev |-> prev, result |-> result]

InitWith(bound) ==
    /\ signed \in BOOLEAN
    /\ ibound = bound
    /\ builder = BuilderFromIter
    /\ inserted = <<>>
    /\ phase = "building"
    /\ lastOp = Call("from_iter", <<>>, None, OkUnit)
    /\ packed = [im |-> DefaultIntermediary, result |-> OkUnit]

Init == InitWith(U16Max)

InitTiny == InitWith(TinyIndexMax)

\* Builder::insert(key, value)
Insert(key, value) ==
    /\ phase = "building"
    /\ Len(inserted) < MaxInserts
    /\ LET r == BuilderInsert(builder, key, value)
       IN /\ builder' = r.builder
          /\ lastOp' = Call("insert", key, builder.previous_key, r.result)
          /\ inserted' = IF r.result.kind = "Ok" THEN Append(inserted, <<key, value>>)
                         ELSE inserted
          /\ phase' = IF r.result.kind \in {"Ok", "Duplicate", "OutOfOrder"} THEN "building"
                      ELSE "failed"
    /\ UNCHANGED <<signed, ibound, packed>>

\* Builder::finish()
Finish ==
    /\ phase = "building"
    /\ LET r == BuilderFinish(builder)
       IN /\ builder' = r.builder
          /\ lastOp' = Call("finish", <<>>, builder.previous_key, r.result)
          /\ phase' = IF r.result.kind = "Ok" THEN "finished" ELSE "failed"
    /\ UNCHANGED <<signed, ibound, inserted, packed>>

\* Builder::finish() called on the builder that from_iter returned
FinishAgain ==
    /\ phase = "finished"
    /\ LET r == BuilderFinish(builder)
       IN /\ builder' = r.builder
          /\ lastOp' = Call("finish_again", <<>>, builder.previous_key, r.result)
          /\ phase' = IF r.result.kind = "Ok" THEN "finished" ELSE "failed"
    /\ UNCHANGED <<signed, ibound, inserted, packed>>

\* FST::from_builder(&builder)
FromBuilder ==
    /\ phase = "finished"
    /\ packed' = FstFromBuilder(builder)
    /\ lastOp' = Call("from_builder", <<>>, builder.previous_key, packed'.result)
    /\ phase' = "packed"
    /\ UNCHANGED <<signed, ibound, builder, inserted>>

Next ==
    \/ \E key \in Keys, value \in Values : Insert(key, value)
    \/ Finish
    \/ FinishAgain
    \/ FromBuilder

Spec == Init /\ [][Next]_vars

SpecTiny == InitTiny /\ [][Next]_vars

\* ---- the builder fed every value of its output type -----------------------------------
NextWidth ==
    \/ \E key \in Keys, value \in ValueRange : Insert(key, value)
    \/ Finish
    \/ FromBuilder

SpecWidth == Init /\ [][NextWidth]_vars

\* ---- the output types on their own ---------------------------------------------------
InitOutput ==
    /\ signed \in BOOLEAN
    /\ ibound = U16Max
    /\ builder = BuilderFromIter
    /\ inserted = <<>>
    /\ phase = "output"
    /\ lastOp = Call("default", <<>>, None, OkUnit)
    /\ packed = [im |-> DefaultIntermediary, result |-> OkUnit]

\* prefix, inverse and mappend applied to a and b
ApplyMonoidLaw(a, b) ==
    /\ phase = "output"
    /\ lastOp' = Call("monoid_law", <<a, b>>, None, MonoidLaw(a, b))
    /\ UNCHANGED <<signed, ibound, builder, inserted, phase, packed>>

NextOutput == \E a \in OutputRange, b \in OutputRange : ApplyMonoidLaw(a, b)

SpecOutput == InitOutput /\ [][NextOutput]_vars

\* ---- the free-list on its own: any sequence of expand and settle --------------------
\* the label sets of states: sequences of distinct labels
SymbolSets ==
    { syms \in SeqsUpTo(MaxLabel + 1) :
        \A i, j \in 1 .. Len(syms) : i # j => syms[i] # syms[j] }

InitSegments ==
    /\ signed = FALSE
    /\ ibound = U16Max
    /\ builder = BuilderFromIter
    /\ inserted = <<>>
    /\ phase = "segments"
    /\ lastOp = Call("default", <<>>, None, OkUnit)
    /\ packed = [im |-> DefaultIntermediary, result |-> OkUnit]

\* IndexSegments::expand()
SegmentsExpand ==
    /\ phase = "segments"
    /\ Len(packed.im.segments.links) < MaxBlocks * BlockSize
    /\ packed' = [packed EXCEPT !.im.segments = SegExpand(@)]
    /\ lastOp' = Call("expand", <<>>, None, Ok(Unwrap(packed'.im.segments.vacancy)))
    /\ UNCHANGED <<signed, ibound, builder, inserted, phase>>

\* IndexSegments::settle(symbols)
SegmentsSettle(symbols) ==
    /\ phase = "segments"
    /\ LET r == SegSettle(packed.im.segments, symbols)
       IN /\ packed' = [packed EXCEPT !.im.segments = r.segments]
          /\ lastOp' = Call("settle", symbols, None, r.base)
    /\ UNCHANGED <<signed, ibound, builder, inserted, phase>>

NextSegments ==
    \/ SegmentsExpand
    \/ \E symbols \in SymbolSets : SegmentsSettle(symbols)

SpecSegments == InitSegments /\ [][NextSegments]_vars

\* ---- the free-list with affix called on its own ----------------------------------------
\* IndexSegments::affix(i): the assert! fails on a fixed cell, the index on a cell
\* that does not exist
SegmentsAffix(i) ==
    /\ phase = "segments"
    /\ LET seg == Affix(packed.im.segments, i)
       IN /\ packed' = [packed EXCEPT !.im.segments = seg]
          /\ lastOp' = Call("affix", << i >>, None,
                            IF seg.panicked THEN Panic("affix") ELSE OkUnit)
          /\ phase' = IF seg.panicked THEN "failed" ELSE "segments"
    /\ UNCHANGED <<signed, ibound, builder, inserted>>

NextSegmentsAffix ==
    \/ SegmentsExpand
    \/ \E symbols \in SymbolSets : SegmentsSettle(symbols)
    \/ \E i \in 0 .. MaxBlocks * BlockSize : SegmentsAffix(i)

SpecSegmentsAffix == InitSegments /\ [][NextSegmentsAffix]_vars

\* ---- what the claims speak about ---------------------------------------------------
MaxQueryLen == MaxKeyLen + 1

QueryKeys == SeqsUpTo(MaxQueryLen)

InsertedKeys == { inserted[j][1] : j \in 1 .. Len(inserted) }

\* M[k] for a key k of the map M fed to the builder
ValueOf(k) == inserted[CHOOSE j \in 1 .. Len(inserted) : inserted[j][1] = k][2]

Built == phase = "packed" /\ packed.result.kind = "Ok"

TheFst == packed.im.fst

Take(q, n) == SubSeq(q, 1, n)

\* a < b in lexicographic order: a is a proper prefix of b, or they first differ at
\* a position where a has the smaller label
LexLess(a, b) ==
    \E n \in 0 .. Min(Len(a), Len(b)) :
        /\ Take(a, n) = Take(b, n)
        /\ \/ (n = Len(a) /\ n < Len(b))
           \/ (n < Len(a) /\ n < Len(b) /\ a[n + 1] < b[n + 1])

\* the pairs (|p|, M[p]) for the prefixes p of q that are keys, from length n on
RECURSIVE PrefixItemsFrom(_, _)
PrefixItemsFrom(q, n) ==
    IF n > Len(q) THEN <<>>
    ELSE (IF Take(q, n) \in InsertedKeys THEN << <<n, ValueOf(Take(q, n))>> >> ELSE <<>>)
         \o PrefixItemsFrom(q, n + 1)

PrefixItems(q) == PrefixItemsFrom(q, 0)

\* the key inserted before the last call
PreviousInserted ==
    LET n == IF lastOp.result.kind = "Ok" THEN Len(inserted) - 1 ELSE Len(inserted)
    IN IF n >= 1 THEN Some(inserted[n][1]) ELSE None

\* the sum of the arc outputs along the path of `key` from the registered state
\* s, plus the final_output of the state the path ends in; None if there is no path
\* or it ends in a state that is not terminal
RECURSIVE RegistryPathValue(_, _, _, _, _)
RegistryPathValue(states, s, key, j, acc) ==
    IF j > Len(key)
    THEN IF states[s].terminal THEN Some(acc + states[s].final_output) ELSE None
    ELSE LET ts == { n \in 1 .. Len(states[s].transitions) :
                        states[s].transitions[n].label = key[j] }
         IN IF ts = {} THEN None
            ELSE LET t == states[s].transitions[CHOOSE n \in ts : TRUE]
                 IN RegistryPathValue(states, t.destination, key, j + 1, acc + t.output)

\* the same from the dangling state at depth j - 1
RECURSIVE DanglingPathValue(_, _, _, _)
DanglingPathValue(b, key, j, acc) ==
    LET d == b.dangling[j]
    IN IF j > Len(key)
       THEN IF d.state.terminal THEN Some(acc + d.state.final_output) ELSE None
       ELSE IF IsSome(d.last_arc) /\ Unwrap(d.last_arc).label = key[j]
       THEN IF j + 1 > Len(b.dangling) THEN None
            ELSE DanglingPathValue(b, key, j + 1, acc + Unwrap(d.last_arc).output)
       ELSE LET ts == { n \in 1 .. Len(d.state.transitions) :
                           d.state.transitions[n].label = key[j] }
            IN IF ts = {} THEN None
               ELSE LET t == d.state.transitions[CHOOSE n \in ts : TRUE]
                    IN RegistryPathValue(BuilderStates(b), t.destination, key, j + 1,
                                         acc + t.output)

BuilderPathValue(b, key) ==
    IF b.dangling = <<>> THEN RegistryPathValue(BuilderStates(b), b.root, key, 1, 0)
    ELSE DanglingPathValue(b, key, 1, 0)

\* the outputs that leave a state: its arcs' outputs, and final_output if terminal
StateOutputs(state) ==
    [j \in 1 .. Len(state.transitions) |-> state.transitions[j].output]
    \o (IF state.terminal THEN << state.final_output >> ELSE <<>>)

\* prefix folded over a non-empty sequence of outputs
RECURSIVE CommonPrefix(_)
CommonPrefix(outs) ==
    IF Len(outs) = 1 THEN outs[1]
    ELSE Prefix(outs[1], CommonPrefix(Tail(outs)))

\* ---- C1 ------------------------------------------------------------------------------
\* C1: for every strictly ascending input, from_iter and from_builder succeed and
\* get(k) returns Some(M[k]) for every key k of M.
C1_RoundTrip ==
    /\ phase # "failed"
    /\ phase = "packed" =>
          /\ packed.result.kind = "Ok"
          /\ \A j \in 1 .. Len(inserted) :
                FstGetResult(TheFst, inserted[j][1]) =
                    [panic |-> FALSE, value |-> Some(inserted[j][2])]

\* ---- C2 ------------------------------------------------------------------------------
\* C2: in every FST built from M, get(k) is None for every byte string k that is
\* not a key of M.
C2_AbsentKeys ==
    Built => \A k \in QueryKeys \ InsertedKeys : FstGet(TheFst, k) = None

\* ---- C3 ------------------------------------------------------------------------------
\* C3: in every FST built from M, contains(k) is true if and only if k is a key of M.
C3_SetSemantics ==
    Built => \A k \in QueryKeys : FstContains(TheFst, k) <=> k \in InsertedKeys

\* ---- C4 ------------------------------------------------------------------------------
\* C4: the items of reap(q) up to its first None are exactly the pairs (|p|, M[p])
\* for the prefixes p of q that are keys of M, in ascending |p|.
C4_PrefixEnumeration ==
    Built => \A q \in QueryKeys : ReaperCollect(TheFst, Reap(TheFst, q)) = PrefixItems(q)

\* ---- C5 ------------------------------------------------------------------------------
\* C5: reap(q) yields what reap_past_root(q) yields, with the item (0, M[""])
\* prepended when the empty string is a key, and exactly that when it is not.
C5_TwoIteratorEquivalence ==
    Built =>
      \A q \in QueryKeys :
        LET r == ReaperCollect(TheFst, Reap(TheFst, q))
            p == RootlessReaperCollect(TheFst, ReapPastRoot(TheFst, q))
        IN IF <<>> \in InsertedKeys
           THEN r = << <<0, ValueOf(<<>>)>> >> \o p
           ELSE r = p

\* the empty key has a non-zero value and some query yields further items
C5_Witness ==
    /\ Built
    /\ <<>> \in InsertedKeys
    /\ ValueOf(<<>>) # 0
    /\ \E q \in QueryKeys :
          Len(RootlessReaperCollect(TheFst, ReapPastRoot(TheFst, q))) >= 2

\* ---- C6 ------------------------------------------------------------------------------
\* C6: after successful inserts whose last key is prev, insert(key, v) returns
\* Duplicate(key) if key = prev, OutOfOrder(key, prev) if key < prev, and neither
\* if key > prev or nothing was inserted before.
C6_MonotoneInputRejection ==
    lastOp.op = "insert" =>
      LET key == lastOp.key
          prev == PreviousInserted
      IN IF IsSome(prev) /\ key = Unwrap(prev)
         THEN lastOp.result = Duplicate(key)
         ELSE IF IsSome(prev) /\ LexLess(key, Unwrap(prev))
         THEN lastOp.result = OutOfOrder(key, Unwrap(prev))
         ELSE lastOp.result.kind \notin {"Duplicate", "OutOfOrder"}

\* the empty key arrives after another key and is rejected as out of order
C6_Witness ==
    /\ lastOp.op = "insert"
    /\ lastOp.key = <<>>
    /\ Len(inserted) >= 2
    /\ lastOp.result.kind = "OutOfOrder"

\* ---- C7 ------------------------------------------------------------------------------
\* C7: every index in the registry is at most I::max and is the untruncated
\* allocation counter; an insert or finish that needs a state index above I::max,
\* or raises the transition count above I::max, returns OutOfBounds with
\* maximum = I::max and reached > I::max.
C7_BuilderIndexBound ==
    /\ \A s \in DOMAIN builder.registry : builder.registry[s] <= ibound
    /\ { builder.registry[s] : s \in DOMAIN builder.registry } =
          0 .. (Cardinality(DOMAIN builder.registry) - 1)
    /\ (builder.usable_index - 1 > ibound \/ builder.transition_count > ibound) =>
          /\ phase = "failed"
          /\ lastOp.op \in {"insert", "finish"}
          /\ lastOp.result.kind = "OutOfBounds"
    /\ (lastOp.op \in {"insert", "finish"} /\ lastOp.result.kind = "OutOfBounds") =>
          /\ lastOp.result.maximum = ibound
          /\ lastOp.result.reached > ibound

\* an insert was refused because the transition count outgrew the index type
C7_Witness ==
    /\ lastOp.op = "insert"
    /\ lastOp.result.kind = "OutOfBounds"
    /\ builder.transition_count > ibound

\* ---- C8 ------------------------------------------------------------------------------
\* C8: from_builder returns Ok or Err(OutOfBounds) for every finished builder; it
\* never panics.
C8_PackerNeverAborts ==
    phase = "packed" => packed.result.kind \in {"Ok", "OutOfBounds"}

\* ---- C9 ------------------------------------------------------------------------------
\* C9: after every successful insert and after finish, the arc outputs along the
\* path of every inserted key plus the final_output of the state it ends in sum
\* to the value inserted with the key.
C9_ValuePreservation ==
    phase \in {"building", "finished"} =>
      \A j \in 1 .. Len(inserted) :
        BuilderPathValue(builder, inserted[j][1]) = Some(inserted[j][2])

\* an output was pushed down the dangling path into a final_output
C9_Witness ==
    /\ phase = "building"
    /\ Len(inserted) >= 2
    /\ \E i \in 2 .. Len(builder.dangling) :
          /\ builder.dangling[i].state.terminal
          /\ builder.dangling[i].state.final_output # 0
          /\ Len(builder.dangling[i].state.transitions) >= 1

\* ---- C10 -----------------------------------------------------------------------------
\* C10 as stated: after finish, any two distinct outgoing arcs of a registered
\* state other than the root have prefix(a1.output, a2.output) = zero.
C10_PairwisePrefixZero ==
    phase \in {"finished", "packed"} =>
      \A s \in DOMAIN builder.registry :
        builder.registry[s] # builder.root =>
          \A i, j \in 1 .. Len(s.transitions) :
            i # j => Prefix(s.transitions[i].output, s.transitions[j].output) = Zero

\* C10 as amended: after finish, in every registered state other than the root
\* the outputs of all outgoing arcs, together with final_output when the state is
\* terminal, have no common prefix: prefix folded over them is zero.
C10_NoCommonPrefix ==
    phase \in {"finished", "packed"} =>
      \A s \in DOMAIN builder.registry :
        (builder.registry[s] # builder.root /\ StateOutputs(s) # <<>>) =>
          CommonPrefix(StateOutputs(s)) = Zero

\* a state that is not the root has two arcs with a non-zero common prefix
C10_Witness ==
    /\ phase = "finished"
    /\ \E s \in DOMAIN builder.registry :
          /\ builder.registry[s] # builder.root
          /\ \E i, j \in 1 .. Len(s.transitions) :
                i # j /\ Prefix(s.transitions[i].output, s.transitions[j].output) # Zero

\* ---- C11 -----------------------------------------------------------------------------
\* the language of the registered state s: the pairs <<suffix, output>> where the
\* output is the sum of the arc outputs along the suffix plus the final_output
RECURSIVE StateLanguage(_, _)
StateLanguage(states, s) ==
    (IF states[s].terminal THEN { << <<>>, states[s].final_output >> } ELSE {})
    \cup UNION { { << << states[s].transitions[n].label >> \o p[1],
                      states[s].transitions[n].output + p[2] >> :
                      p \in StateLanguage(states, states[s].transitions[n].destination) } :
                 n \in 1 .. Len(states[s].transitions) }

IsPrefixOf(w, k) == Len(w) <= Len(k) /\ Take(k, Len(w)) = w

\* what M maps the continuations of w to
Residual(w) ==
    { << SubSeq(inserted[j][1], Len(w) + 1, Len(inserted[j][1])), inserted[j][2] >> :
        j \in { i \in 1 .. Len(inserted) : IsPrefixOf(w, inserted[i][1]) } }

\* prefix folded over a non-empty set of outputs
RECURSIVE CommonPrefixOfSet(_)
CommonPrefixOfSet(S) ==
    LET x == CHOOSE y \in S : TRUE
    IN IF S = {x} THEN x ELSE Prefix(x, CommonPrefixOfSet(S \ {x}))

\* a residual with its common output taken off: a state of the minimal transducer
NormalResidual(w) ==
    LET r == Residual(w)
        c == CommonPrefixOfSet({ p[2] : p \in r })
    IN { << p[1], Inverse(p[2], c) >> : p \in r }

KeyPrefixes == UNION { { Take(k, n) : n \in 0 .. Len(k) } : k \in InsertedKeys }

MinimalStates == { NormalResidual(w) : w \in KeyPrefixes }

\* C11: after finish, no two registry entries with different indices have the same
\* language (same suffixes, same output for each), and the registry has one entry
\* per state of the minimal transducer of the inserted pairs.
C11_Minimality ==
    (phase \in {"finished", "packed"}) =>
      /\ \A i, j \in DOMAIN BuilderStates(builder) :
            i # j => StateLanguage(BuilderStates(builder), i) #
                     StateLanguage(BuilderStates(builder), j)
      /\ Cardinality(DOMAIN builder.registry) =
            IF inserted = <<>> THEN 1 ELSE Cardinality(MinimalStates)

\* two states share a destination that has arcs of its own, below an output
C11_Witness ==
    /\ phase = "finished"
    /\ \E s1, s2 \in DOMAIN builder.registry :
          /\ s1 # s2
          /\ \E n1 \in 1 .. Len(s1.transitions), n2 \in 1 .. Len(s2.transitions) :
                /\ s1.transitions[n1].destination = s2.transitions[n2].destination
                /\ s1.transitions[n1].output # s2.transitions[n2].output
                /\ Len(BuilderStates(builder)[s1.transitions[n1].destination].transitions) >= 1

\* ---- C12 -----------------------------------------------------------------------------
\* a call to next() has more calls after it than the query has labels
MaxCalls == MaxQueryLen + 2

\* the call consumed a label without advancing: a transition failed
TransitionFailed(it, r) ==
    Len(it.query) - Len(r.it.query) > r.it.position - it.position

\* the next n calls on the iterator all return None
RECURSIVE ReaperStaysNone(_, _, _)
ReaperStaysNone(fst, it, n) ==
    n = 0 \/ LET r == ReaperNext(fst, it)
             IN IsNone(r.item) /\ ReaperStaysNone(fst, r.it, n - 1)

RECURSIVE RootlessReaperStaysNone(_, _, _)
RootlessReaperStaysNone(fst, it, n) ==
    n = 0 \/ LET r == RootlessReaperNext(fst, it)
             IN IsNone(r.item) /\ RootlessReaperStaysNone(fst, r.it, n - 1)

\* in the next n calls, a call at which a transition fails returns None and so do
\* the calls after it
RECURSIVE ReaperTerminates(_, _, _)
ReaperTerminates(fst, it, n) ==
    n = 0 \/ LET r == ReaperNext(fst, it)
             IN IF TransitionFailed(it, r)
                THEN IsNone(r.item) /\ ReaperStaysNone(fst, r.it, n - 1)
                ELSE ReaperTerminates(fst, r.it, n - 1)

RECURSIVE RootlessReaperTerminates(_, _, _)
RootlessReaperTerminates(fst, it, n) ==
    n = 0 \/ LET r == RootlessReaperNext(fst, it)
             IN IF TransitionFailed(it, r)
                THEN IsNone(r.item) /\ RootlessReaperStaysNone(fst, r.it, n - 1)
                ELSE RootlessReaperTerminates(fst, r.it, n - 1)

\* C12: on reap(q) and reap_past_root(q), the call to next() at which a transition
\* fails returns None, and every later call to next() returns None as well.
C12_IteratorTermination ==
    Built =>
      \A q \in QueryKeys :
        /\ ReaperTerminates(TheFst, Reap(TheFst, q), MaxCalls)
        /\ RootlessReaperTerminates(TheFst, ReapPastRoot(TheFst, q), MaxCalls)

\* ---- C13 -----------------------------------------------------------------------------
\* the size hint brackets the number of items before the next None, now and after
\* each of the next n calls
RECURSIVE ReaperHintBrackets(_, _, _)
ReaperHintBrackets(fst, it, n) ==
    /\ ReaperSizeHint(it).lower <= Len(ReaperCollect(fst, it))
    /\ Len(ReaperCollect(fst, it)) <= Unwrap(ReaperSizeHint(it).upper)
    /\ n = 0 \/ ReaperHintBrackets(fst, ReaperNext(fst, it).it, n - 1)

RECURSIVE RootlessReaperHintBrackets(_, _, _)
RootlessReaperHintBrackets(fst, it, n) ==
    /\ RootlessReaperSizeHint(it).lower <= Len(RootlessReaperCollect(fst, it))
    /\ Len(RootlessReaperCollect(fst, it)) <= Unwrap(RootlessReaperSizeHint(it).upper)
    /\ n = 0 \/ RootlessReaperHintBrackets(fst, RootlessReaperNext(fst, it).it, n - 1)

RootBit(fst) == IF At(fst.stipe, 0).terminal # "Not" THEN 1 ELSE 0

\* C13: a fresh reap(q) reports (r, Some(|q| + r)) with r = 1 for a terminal root
\* and 0 otherwise, a fresh reap_past_root(q) reports (0, Some(|q|)), and at every
\* later point the bounds bracket the number of items yielded before the next None.
C13_SizeHint ==
    Built =>
      \A q \in QueryKeys :
        /\ ReaperSizeHint(Reap(TheFst, q)) =
              [lower |-> RootBit(TheFst), upper |-> Some(Len(q) + RootBit(TheFst))]
        /\ RootlessReaperSizeHint(ReapPastRoot(TheFst, q)) =
              [lower |-> 0, upper |-> Some(Len(q))]
        /\ ReaperHintBrackets(TheFst, Reap(TheFst, q), MaxCalls)
        /\ RootlessReaperHintBrackets(TheFst, ReapPastRoot(TheFst, q), MaxCalls)

\* the root is terminal and a query of two labels or more meets its upper bound
C13_Witness ==
    /\ Built
    /\ RootBit(TheFst) = 1
    /\ \E q \in QueryKeys :
          /\ Len(q) >= 2
          /\ Len(ReaperCollect(TheFst, Reap(TheFst, q))) = Len(q) + 1

\* ---- C14 -----------------------------------------------------------------------------
\* C14: from_iter over no pairs succeeds, finish() on the builder it returns
\* succeeds with the root index, and the FST built from it has a non-terminal root.
C14_EmptyInput ==
    inserted = <<>> /\ IsNone(builder.previous_key) =>
      /\ lastOp.op \in {"finish", "finish_again"} =>
            lastOp.result = Ok(builder.root)
      /\ phase = "packed" =>
            /\ packed.result.kind = "Ok"
            /\ At(TheFst.stipe, 0).terminal = "Not"

\* ---- C15 -----------------------------------------------------------------------------
\* insert for each pair from the j-th on, stopping at the first that is not Ok
RECURSIVE InsertAll(_, _, _)
InsertAll(b, pairs, j) ==
    IF j > Len(pairs) THEN [builder |-> b, result |-> OkUnit]
    ELSE LET r == BuilderInsert(b, pairs[j][1], pairs[j][2])
         IN IF r.result.kind = "Ok" THEN InsertAll(r.builder, pairs, j + 1) ELSE r

\* Builder::default(), insert for each pair, finish()
StreamingBuild(pairs) ==
    LET r == InsertAll(BuilderDefault, pairs, 1)
    IN IF r.result.kind = "Ok" THEN BuilderFinish(r.builder) ELSE r

\* C15: Builder::default() followed by insert for each pair of a strictly ascending
\* sequence and finish() returns Ok at every step and ends with the registry and
\* root index of Builder::from_iter on the same sequence.
C15_StreamingBuild ==
    (phase = "finished" /\ lastOp.op = "finish") =>
      LET r == StreamingBuild(inserted)
      IN /\ r.result.kind = "Ok"
         /\ r.builder.registry = builder.registry
         /\ r.builder.root = builder.root

\* ---- C16 -----------------------------------------------------------------------------
\* the base the packer gave to the builder state of index i
PackedBase(i) == Unwrap(At(packed.im.registry, i))

\* what transition must return from builder state i on label l
ArcOf(states, i, l) ==
    LET ns == { n \in 1 .. Len(states[i].transitions) : states[i].transitions[n].label = l }
    IN IF ns = {} THEN None
       ELSE LET d == states[i].transitions[CHOOSE n \in ns : TRUE].destination
            IN Some([index |-> PackedBase(d), terminal |-> Classify(states[d])])

\* C16: for every builder state s packed at base b and every label l, label 0
\* included, transition(b, l) is Some exactly when s has an arc labelled l, with
\* the packed base and the class of the arc's destination; otherwise it is None.
C16_PackedIsomorphism ==
    Built =>
      \A i \in DOMAIN BuilderStates(builder), l \in Labels :
        FstTransition(TheFst, PackedBase(i), l) = ArcOf(BuilderStates(builder), i, l)

\* ---- C17 -----------------------------------------------------------------------------
\* the cells a state with these symbols takes when settled at base
CellsOf(base, symbols) == { base } \cup { base + (1 + symbols[j]) : j \in 1 .. Len(symbols) }

\* the bases at which every cell of the state exists and is unfixed
FreeBases(seg, symbols) ==
    { b \in 0 .. Len(seg.links) - 1 :
        \A c \in CellsOf(b, symbols) : c < Len(seg.links) /\ ~At(seg.links, c).fixed }

SetMin(S) == CHOOSE x \in S : \A y \in S : x <= y

\* what settle(symbols) returned and did, from seg to seg1
SettledAsClaimed(seg, symbols, base, seg1) ==
    IF FreeBases(seg, symbols) = {}
    THEN base = None /\ seg1 = seg
    ELSE /\ base = Some(SetMin(FreeBases(seg, symbols)))
         /\ ~seg1.panicked
         /\ Len(seg1.links) = Len(seg.links)
         /\ \A c \in 0 .. Len(seg.links) - 1 :
               At(seg1.links, c).fixed =
                  (At(seg.links, c).fixed \/ c \in CellsOf(Unwrap(base), symbols))

\* C17: after any sequence of expand and settle calls, settle(symbols) returns the
\* lowest unfixed base whose cells base + 1 + l all exist and are unfixed, and fixes
\* the base and those cells and no other; if there is no such base it returns None
\* and changes nothing.
C17_FreeListSettle ==
    [][lastOp'.op = "settle" =>
          SettledAsClaimed(packed.im.segments, lastOp'.key, lastOp'.result,
                           packed'.im.segments)]_vars

\* a settle of two symbols passed over the first vacancy and took a later base
C17_Witness ==
    /\ phase = "segments"
    /\ lastOp.op = "settle"
    /\ Len(lastOp.key) = 2
    /\ IsSome(lastOp.result)
    /\ \E c \in 0 .. Unwrap(lastOp.result) - 1 : ~At(packed.im.segments.links, c).fixed

\* ---- C18 -----------------------------------------------------------------------------
\* C18: for the unsigned and the signed integers and all a, b of the type,
\* mappend(prefix(a, b), inverse(a, prefix(a, b))) = a and no intermediate result
\* leaves the type's range; prefix is min for unsigned, and for signed min of two
\* positives, max of two non-positives and zero otherwise.
C18_MonoidLaw ==
    lastOp.op = "monoid_law" =>
      LET a == lastOp.key[1]
          b == lastOp.key[2]
      IN /\ lastOp.result.mappend = a
         /\ ~lastOp.result.overflow
         /\ lastOp.result.prefix =
               IF ~signed THEN Min(a, b)
               ELSE IF a > 0 /\ b > 0 THEN Min(a, b)
               ELSE IF a <= 0 /\ b <= 0 THEN Max(a, b)
               ELSE 0

\* the least value of the signed type against a negative value nearer zero
C18_Witness ==
    /\ lastOp.op = "monoid_law"
    /\ signed
    /\ lastOp.key[1] = 0 - 2 ^ (OutBits - 1)
    /\ lastOp.key[2] = 0 - 1
    /\ lastOp.result.inverse # 0

\* ---- C19 -----------------------------------------------------------------------------
\* C19: after every successful insert of a non-empty key k, the dangling path has
\* |k| + 1 states; position i < |k| has a last arc labelled k[i]; the deepest
\* position has no last arc, is terminal and has no transitions.
C19_DanglingPathShape ==
    (lastOp.op = "insert" /\ lastOp.result.kind = "Ok" /\ lastOp.key # <<>>) =>
      LET k == lastOp.key
          stack == builder.dangling
      IN /\ Len(stack) = Len(k) + 1
         /\ \A i \in 1 .. Len(k) :
               /\ IsSome(stack[i].last_arc)
               /\ Unwrap(stack[i].last_arc).label = k[i]
         /\ IsNone(stack[Len(stack)].last_arc)
         /\ stack[Len(stack)].state.terminal
         /\ stack[Len(stack)].state.transitions = <<>>

\* the key left the previous key's path above its end: states were finalized, and
\* the state where the paths part keeps the arc of the previous key
C19_Witness ==
    /\ lastOp.op = "insert"
    /\ lastOp.result.kind = "Ok"
    /\ Len(inserted) >= 2
    /\ Len(lastOp.key) >= 2
    /\ \E i \in 1 .. Len(lastOp.key) - 1 :
          /\ Len(builder.dangling[i + 1].state.transitions) >= 1
          /\ Len(inserted[Len(inserted) - 1][1]) > i + 1

\* ---- C20 -----------------------------------------------------------------------------
\* one of the next n calls to next() fails its lookup in the state-output map
RECURSIVE ReaperLookupFails(_, _, _)
ReaperLookupFails(fst, it, n) ==
    it.panic \/ (n > 0 /\ ReaperLookupFails(fst, ReaperNext(fst, it).it, n - 1))

RECURSIVE RootlessReaperLookupFails(_, _, _)
RootlessReaperLookupFails(fst, it, n) ==
    it.panic \/ (n > 0 /\ RootlessReaperLookupFails(fst, RootlessReaperNext(fst, it).it, n - 1))

\* the builder states that are final with a non-zero final_output
InnerStates == { i \in DOMAIN BuilderStates(builder) : Classify(BuilderStates(builder)[i]) = "Inner" }

\* C20: the state-output map of a built FST has an entry at base b exactly when
\* the state packed at b is final with a non-zero final_output, and the entry is
\* that final_output; every cell tagged Inner, the root cell included, leads to a
\* base in the map, and no Inner lookup of get, reap or reap_past_root fails.
C20_StateOutputExact ==
    Built =>
      /\ DOMAIN TheFst.state_output = { PackedBase(i) : i \in InnerStates }
      /\ \A i \in InnerStates :
            TheFst.state_output[PackedBase(i)] = BuilderStates(builder)[i].final_output
      /\ \A e \in 0 .. FstLen(TheFst) - 1 :
            At(TheFst.stipe, e).terminal = "Inner" =>
               At(TheFst.next, e) \in DOMAIN TheFst.state_output
      /\ \A q \in QueryKeys :
            /\ ~FstGetResult(TheFst, q).panic
            /\ ~ReaperLookupFails(TheFst, Reap(TheFst, q), MaxCalls)
            /\ ~RootlessReaperLookupFails(TheFst, ReapPastRoot(TheFst, q), MaxCalls)

\* the map holds the root's output and the output of a state two arcs below it
C20_Witness ==
    /\ Built
    /\ 0 \in DOMAIN TheFst.state_output
    /\ Cardinality(DOMAIN TheFst.state_output) >= 2
    /\ \E k \in InsertedKeys :
          /\ Len(k) >= 2
          /\ FstGet(TheFst, k) = Some(ValueOf(k))
          /\ \E e \in 1 .. FstLen(TheFst) - 1 :
                /\ At(TheFst.stipe, e).terminal = "Inner"
                /\ At(TheFst.stipe, e).check = k[Len(k)]

\* ---- C21 -----------------------------------------------------------------------------
\* the labels of the state's transitions are strictly ascending
LabelsAscending(state) ==
    \A n \in 1 .. Len(state.transitions) - 1 :
        state.transitions[n].label < state.transitions[n + 1].label

\* C21: after any sequence of successful inserts, the transition labels of every
\* dangling and every registered state are strictly ascending, and a dangling
\* state's last-arc label is greater than every label in its transitions.
C21_DeterministicStates ==
    phase \in {"building", "finished"} =>
      /\ \A s \in DOMAIN builder.registry : LabelsAscending(s)
      /\ \A i \in 1 .. Len(builder.dangling) :
            LET d == builder.dangling[i]
            IN /\ LabelsAscending(d.state)
               /\ IsSome(d.last_arc) =>
                     \A n \in 1 .. Len(d.state.transitions) :
                         d.state.transitions[n].label < Unwrap(d.last_arc).label

\* a dangling state below the root has a transition and a last arc, and a
\* registered state has two transitions
C21_Witness ==
    /\ phase = "building"
    /\ \E i \in 2 .. Len(builder.dangling) :
          /\ IsSome(builder.dangling[i].last_arc)
          /\ Len(builder.dangling[i].state.transitions) >= 1
    /\ \E s \in DOMAIN builder.registry : Len(s.transitions) >= 2

\* ---- C22 -----------------------------------------------------------------------------
\* C22: on the builder of from_iter, no insert and no finish fails an assertion
\* (pop_empty, add_suffix, pop_root) or an index, and add_suffix is called with a
\* non-empty suffix by every successful insert of a non-empty key.
C22_AssertionsHold ==
    [][(phase = "building" /\ lastOp'.op \in {"insert", "finish"}) =>
          /\ lastOp'.result.kind # "Panic"
          /\ (lastOp'.op = "insert" /\ lastOp'.result.kind = "Ok" /\ lastOp'.key # <<>>) =>
                RedistributePrefix(builder.dangling, lastOp'.key,
                                   inserted'[Len(inserted')][2]).prefix_len
                    < Len(lastOp'.key)]_vars

\* finish popped the whole path of a key that had left the path of the key before
C22_Witness ==
    /\ lastOp.op = "finish"
    /\ lastOp.result.kind = "Ok"
    /\ Len(inserted) >= 3
    /\ ~IsPrefixOf(inserted[Len(inserted) - 1][1], inserted[Len(inserted)][1])
    /\ Len(inserted[Len(inserted)][1]) >= 2

\* ---- C23 -----------------------------------------------------------------------------
\* the cells the free-list has fixed
FixedCells(seg) == { c \in 0 .. Len(seg.links) - 1 : At(seg.links, c).fixed }

\* the transition cells of the builder's states, from the bases recorded for them
TransitionCells(states) ==
    UNION { { PackedBase(i) + (1 + states[i].transitions[n].label) :
                n \in 1 .. Len(states[i].transitions) } : i \in DOMAIN states }

\* C23: when a base chosen for a state exceeds I::max, from_builder returns
\* OutOfBounds with that base and I::max; in every FST returned Ok the recorded
\* bases are the bases the free-list fixed, none above I::max, and next[e] of every
\* transition cell is the base of the destination.
C23_PackerIndexBound ==
    phase = "packed" =>
      /\ packed.result.kind = "OutOfBounds" =>
            /\ packed.result.maximum = ibound
            /\ packed.result.reached > ibound
            /\ packed.result.reached \in FixedCells(packed.im.segments)
      /\ packed.result.kind = "Ok" =>
            LET states == BuilderStates(builder)
            IN /\ FixedCells(packed.im.segments) =
                     { PackedBase(i) : i \in DOMAIN states } \cup TransitionCells(states)
               /\ \A i \in DOMAIN states :
                     /\ PackedBase(i) <= ibound
                     /\ \A n \in 1 .. Len(states[i].transitions) :
                           At(TheFst.next, PackedBase(i) + (1 + states[i].transitions[n].label))
                               = PackedBase(states[i].transitions[n].destination)

\* the packer refused a base above the index type's maximum
C23_Witness ==
    /\ phase = "packed"
    /\ packed.result.kind = "OutOfBounds"
    /\ packed.result.reached > TinyIndexMax
    /\ Cardinality(DOMAIN builder.registry) >= 3

\* ---- C24 -----------------------------------------------------------------------------
\* the (state, transition) pairs of the builder's states
ArcPairs(states) ==
    UNION { { << i, n >> : n \in 1 .. Len(states[i].transitions) } : i \in DOMAIN states }

CellOf(states, a) == PackedBase(a[1]) + (1 + states[a[1]].transitions[a[2]].label)

C25_ContainsAgreesWithGet ==
    Built => \A k \in QueryKeys : FstContains(TheFst, k) <=> IsSome(FstGet(TheFst, k))

\* ---- C26 -----------------------------------------------------------------------------
\* C26: an insert that returns Duplicate or OutOfOrder leaves the registry, the
\* dangling path, the previous key, the counters and the language size as they
\* were, so that what follows is as if the insert had not been made.
C26_RejectedInsertChangesNothing ==
    [][(lastOp'.op = "insert" /\ lastOp'.result.kind \in {"Duplicate", "OutOfOrder"}) =>
          /\ builder' = builder
          /\ inserted' = inserted
          /\ phase' = phase]_vars

\* a key was rejected as out of order by a builder with registered states and a
\* dangling path of three states or more
C26_Witness ==
    /\ lastOp.op = "insert"
    /\ lastOp.result.kind = "OutOfOrder"
    /\ lastOp.key # <<>>
    /\ Cardinality(DOMAIN builder.registry) >= 1
    /\ Len(builder.dangling) >= 3

\* ---- C27 -----------------------------------------------------------------------------
RegistryIndices == { builder.registry[s] : s \in DOMAIN builder.registry }

\* C27: after any sequence of successful inserts and after finish, the registry's
\* indices are 0 .. size - 1 without repeats, and every transition of a registered
\* state leads to a registered index smaller than the state's own.
C27_RegistrationOrder ==
    phase \in {"building", "finished"} =>
      /\ RegistryIndices = 0 .. (Cardinality(DOMAIN builder.registry) - 1)
      /\ \A s1, s2 \in DOMAIN builder.registry :
            s1 # s2 => builder.registry[s1] # builder.registry[s2]
      /\ \A s \in DOMAIN builder.registry :
            \A n \in 1 .. Len(s.transitions) :
               /\ s.transitions[n].destination \in RegistryIndices
               /\ s.transitions[n].destination < builder.registry[s]

\* the finished registry has a state with an arc to a state registered well
\* before it
C27_Witness ==
    /\ phase = "finished"
    /\ Cardinality(DOMAIN builder.registry) >= 4
    /\ \E s \in DOMAIN builder.registry :
          \E n \in 1 .. Len(s.transitions) :
             s.transitions[n].destination + 2 <= builder.registry[s]

\* ---- C28 -----------------------------------------------------------------------------
\* the outputs the builder holds: arcs, last arcs and final outputs
BuilderOutputs ==
    UNION { { s.final_output } \cup { s.transitions[n].output : n \in 1 .. Len(s.transitions) } :
            s \in DOMAIN builder.registry }
    \cup UNION { { builder.dangling[i].state.final_output }
                 \cup { builder.dangling[i].state.transitions[n].output :
                          n \in 1 .. Len(builder.dangling[i].state.transitions) }
                 \cup (IF IsSome(builder.dangling[i].last_arc)
                       THEN { Unwrap(builder.dangling[i].last_arc).output } ELSE {}) :
                 i \in 1 .. Len(builder.dangling) }

\* C28: with every value of the input in the range of the output type, no mappend
\* and no inverse of insert, of get or of the iterators gives a result outside
\* that range: no unsigned subtraction underflows and no signed addition overflows.
C28_NoOverflow ==
    /\ lastOp.result # Panic("overflow")
    /\ \A x \in BuilderOutputs : ~OutOfRange(x)
    /\ Built => \A q \in QueryKeys : ~QueryOverflows(TheFst, q)

\* ---- C29 -----------------------------------------------------------------------------
\* the cells met from c by next links until v comes round again, n cells at most
RECURSIVE ListFrom(_, _, _, _)
ListFrom(seg, c, v, n) ==
    IF n = 0 \/ c >= Len(seg.links) THEN <<>>
    ELSE << c >> \o (IF At(seg.links, c).next = v THEN <<>>
                     ELSE ListFrom(seg, At(seg.links, c).next, v, n - 1))

VacancyList(seg) ==
    IF IsSome(seg.vacancy)
    THEN ListFrom(seg, Unwrap(seg.vacancy), Unwrap(seg.vacancy), Len(seg.links) + 1)
    ELSE <<>>

WellFormed(seg) ==
    LET list == VacancyList(seg)
        unfixed == { c \in 0 .. Len(seg.links) - 1 : ~At(seg.links, c).fixed }
    IN /\ IsNone(seg.vacancy) <=> unfixed = {}
       /\ { list[n] : n \in 1 .. Len(list) } = unfixed
       /\ \A n \in 1 .. Len(list) - 1 : list[n] < list[n + 1]
       /\ \A n \in 1 .. Len(list) :
             LET next == At(seg.links, list[n]).next
             IN /\ next < Len(seg.links)
                /\ next = list[(n % Len(list)) + 1]
                /\ At(seg.links, next).previous = list[n]
       /\ UnfixedCount(seg) = Len(list)

\* C29: after any sequence of expand, settle and affix calls, the next links from
\* the vacancy head form a circular list, previous being the inverse of next, of
\* exactly the unfixed cells in ascending order from the lowest; vacancy is None
\* if and only if every cell is fixed; unfixed_count() is the list's length; a
\* fixed cell stays fixed.
C29_FreeListWellFormed ==
    /\ [](phase = "segments" => WellFormed(packed.im.segments))
    /\ [][phase = "segments" =>
            \A c \in 0 .. Len(packed.im.segments.links) - 1 :
               At(packed.im.segments.links, c).fixed =>
                  At(packed'.im.segments.links, c).fixed]_vars

\* affix took the vacancy head out of a list of three blocks that keeps cells on
\* both sides of a fixed one
C29_Witness ==
    /\ phase = "segments"
    /\ lastOp.op = "affix"
    /\ Len(packed.im.segments.links) >= 3 * BlockSize
    /\ IsSome(packed.im.segments.vacancy)
    /\ Unwrap(packed.im.segments.vacancy) > lastOp.key[1]
    /\ \E c \in 1 .. Len(packed.im.segments.links) - 2 :
          /\ At(packed.im.segments.links, c).fixed
          /\ Unwrap(packed.im.segments.vacancy) < c
          /\ ~At(packed.im.segments.links, c + 1).fixed

\* ---- C30 -----------------------------------------------------------------------------
\* C30: the Display text of the OutOfOrder error of an insert names the key just
\* inserted as the lesser key (the first {} of the text) and the previous key as
\* the greater key (the second {}).
C30_OutOfOrderMessage ==
    (lastOp.op = "insert" /\ lastOp.result.kind = "OutOfOrder") =>
        LET text == DisplayError(lastOp.result)
        IN /\ text.format = "The lesser key {} was inserted after the greater key {}"
           /\ text.args[1] = FormatBytes(lastOp.key)
           /\ text.args[2] = FormatBytes(Unwrap(lastOp.prev))

====
